---- MODULE Spec2Model ----
(***************************************************************************)
(* Quick WhatsApp Chat: the App component (phone number, message, topic,   *)
(* QR code, error slot, message generation), the useSpeechRecognition hook *)
(* (microphone recording) and the two remote calls of the gemini service.  *)
(*                                                                         *)
(* Strings are sequences of one-character strings, so that the regular     *)
(* expressions and encodeURIComponent are computed character by character. *)
(* The empty string '' is <<>>.  React re-renders after every state update *)
(* before the next event is handled, so a handler reads the state of the   *)
(* latest update; each action is one event handler, or one continuation of *)
(* an asynchronous call, together with the render and effects it causes.   *)
(***************************************************************************)
EXTENDS Naturals, Sequences, FiniteSets, Bags, TLC

VARIABLES
    phoneNumber,      \* useState<string>('')
    message,          \* useState<string>('')
    topic,            \* useState<string>('')
    qrCodeDataUrl,    \* useState<string>('')
    error,            \* useState<string | null>(null)
    isGenerating,     \* useState<boolean>(false)
    isRecording,      \* useState(false) of useSpeechRecognition
    mediaRecorderRef, \* useRef<MediaRecorder | null>: a session number, 0 for null
    audioChunksRef,   \* useRef<Blob[]>: the chunks pushed, each <<session, number>>
    qrPending,        \* bag of URLs whose QRCode.toDataURL promise is unsettled
    genRequests,      \* the generateMessageStream calls that have not returned
    genEnded,         \* the generateMessageStream call that returned in the latest event
    sessions,         \* the startRecording calls: microphone, recorder, transcription
    recEnded,         \* the startRecording call whose transcription ended in the latest event
    opened,           \* URL given to window.open by the latest event, '' if none
    lastEvent,        \* <<name, session>> of the latest handler or continuation
    history           \* the user's inputs since the page loaded (capped)

vars == <<phoneNumber, message, topic, qrCodeDataUrl, error, isGenerating,
          isRecording, mediaRecorderRef, audioChunksRef, qrPending,
          genRequests, genEnded, sessions, recEnded, opened, lastEvent, history>>

qrVars == <<phoneNumber, qrCodeDataUrl, qrPending>>
genVars == <<isGenerating, genRequests>>
recVars == <<isRecording, mediaRecorderRef, audioChunksRef, sessions>>

-----------------------------------------------------------------------------
(* Bounds of the model *)

\* QRCode.toDataURL requests in flight at once
MaxPending == 2
\* length of the recorded input history
MaxHistory == 2
\* characters a QR symbol can hold (the encoder rejects longer data)
MaxQRData == 41
\* generateMessageStream calls in flight at once
MaxRequests == 2
\* fragments one generation stream delivers
MaxFragments == 2
\* startRecording calls that reach getUserMedia
MaxSessions == 2
\* dataavailable events of one recorder before it is stopped
MaxChunks == 1

-----------------------------------------------------------------------------
(* Characters and strings *)

Digits == {"0", "1", "2", "3", "4", "5", "6", "7", "8", "9"}

Letters == {"a", "b", "c", "d", "e", "f", "g", "h", "i", "j", "k", "l", "m",
            "n", "o", "p", "q", "r", "s", "t", "u", "v", "w", "x", "y", "z",
            "A", "B", "C", "D", "E", "F", "G", "H", "I", "J", "K", "L", "M",
            "N", "O", "P", "Q", "R", "S", "T", "U", "V", "W", "X", "Y", "Z"}

\* JS null, and the three values the error slot is given
Null == "null"
InvalidPhoneError == "Please enter a valid phone number."
GenerateError == "Failed to generate message. Please check your API key and network connection."
TranscribeError == "Failed to transcribe audio. Please check your API key and network connection."
MicrophoneError == "Microphone access denied. Please allow microphone access in your browser settings."

\* /\D/ : a character that is not a digit
IsDigit(c) == c \in Digits

\* /[^0-9+]/ negated: a character the phone field keeps
IsPhoneChar(c) == c \in Digits \cup {"+"}

\* phoneNumber.replace(/\D/g, '')
DigitsOnly(s) == SelectSeq(s, IsDigit)

\* input.replace(/[^0-9+]/g, '')
Sanitize(input) == SelectSeq(input, IsPhoneChar)

MinDigits == 7

\* isValidPhoneNumber computed from phoneNumber.length
IsValidPhoneNumberCountsPlus(phone) == Len(phone) >= MinDigits

\* useMemo: digitsOnly.length >= 7
IsValidPhoneNumber(phone) == Len(DigitsOnly(phone)) >= MinDigits

\* the characters encodeURIComponent leaves as they are
Unreserved == Letters \cup Digits \cup {"-", "_", ".", "!", "~", "*", "'", "(", ")"}

\* encodeURIComponent of one (ASCII) character
EscapeChar(c) ==
    IF c \in Unreserved THEN <<c>>
    ELSE CASE c = " " -> <<"%", "2", "0">>
           [] c = "%" -> <<"%", "2", "5">>
           [] c = "&" -> <<"%", "2", "6">>
           [] c = "+" -> <<"%", "2", "B">>
           [] c = "=" -> <<"%", "3", "D">>
           [] c = "?" -> <<"%", "3", "F">>

RECURSIVE encodeURIComponent(_)
encodeURIComponent(s) ==
    IF s = <<>> THEN <<>>
    ELSE EscapeChar(Head(s)) \o encodeURIComponent(Tail(s))

\* "https://wa.me/"
WaMe == <<"h", "t", "t", "p", "s", ":", "/", "/", "w", "a", ".", "m", "e", "/">>

\* "?text="
TextParam == <<"?", "t", "e", "x", "t", "=">>

\* the URL of the QR effect with the message appended as it is
QrUrlUnencoded(phone, msg) ==
    LET cleanNumber == DigitsOnly(phone)
        url == WaMe \o cleanNumber
    IN  IF msg # <<>> THEN url \o TextParam \o msg ELSE url

\* the URL the QR effect encodes
QrUrl(phone, msg) ==
    LET cleanNumber == DigitsOnly(phone)
        url == WaMe \o cleanNumber
    IN  IF msg # <<>> THEN url \o TextParam \o encodeURIComponent(msg) ELSE url

\* the URL of handleOpenChat built from the phone number as typed
ChatUrlKeepsPlus(phone, msg) ==
    LET url == WaMe \o phone
    IN  IF msg # <<>> THEN url \o TextParam \o encodeURIComponent(msg) ELSE url

\* the URL handleOpenChat opens
ChatUrl(phone, msg) ==
    LET cleanNumber == DigitsOnly(phone)
        url == WaMe \o cleanNumber
    IN  IF msg # <<>> THEN url \o TextParam \o encodeURIComponent(msg) ELSE url

\* QRCode.toDataURL(url, ...): the data URL of the image of url; the promise
\* rejects when url does not fit a QR symbol
DataUrlPrefix == <<"d", "a", "t", "a", ":">>
ToDataURL(url) == [ok |-> Len(url) <= MaxQRData, dataUrl |-> DataUrlPrefix \o url]

-----------------------------------------------------------------------------
(* Inputs *)

\* "555123": six digits
Phone6 == <<"5", "5", "5", "1", "2", "3">>
\* "+15551234567"
PhoneIntl == <<"+", "1", "5", "5", "5", "1", "2", "3", "4", "5", "6", "7">>
\* "+1 555 123-4567": sanitizes to PhoneIntl
PhoneIntlSpaced == <<"+", "1", " ", "5", "5", "5", " ", "1", "2", "3", "-", "4", "5", "6", "7">>
\* "5551234": seven digits
Phone7 == <<"5", "5", "5", "1", "2", "3", "4">>
\* "1+2": a plus sign after a digit
PhonePlusInside == <<"1", "+", "2">>
\* "+555123": seven characters, six of them digits
PhonePlus6 == <<"+", "5", "5", "5", "1", "2", "3">>

RawPhones == {<<>>, Phone6, PhoneIntl, PhoneIntlSpaced, Phone7, PhonePlusInside,
              PhonePlus6}

\* "Hi there"
MsgHi == <<"H", "i", " ", "t", "h", "e", "r", "e">>
\* "Hi there & you": too long for the QR symbol once in a URL
MsgLong == <<"H", "i", " ", "t", "h", "e", "r", "e", " ", "&", " ", "y", "o", "u">>

Messages == {<<>>, MsgHi, MsgLong}

\* topics the user types, and the text a transcription returns
TopicWish == <<"w", "i", "s", "h">>
Topics == {<<>>, TopicWish}
Transcripts == {<<"p", "a", "r", "t", "y">>}

\* chunk.text of a fragment of the generation stream; '' is skipped
Fragments == {<<>>, <<"H", "i">>, <<"!">>}

RECURSIVE Concat(_)
Concat(ss) == IF ss = <<>> THEN <<>> ELSE Head(ss) \o Concat(Tail(ss))

\* s without its i-th element
RemoveAt(s, i) == SubSeq(s, 1, i - 1) \o SubSeq(s, i + 1, Len(s))

-----------------------------------------------------------------------------
(* The QR effect and the handlers of the phone, message and Open Chat *)

\* history with one more input, forgotten once it is longer than MaxHistory
Truncated == << <<"...">> >>
Record(ev) == IF Len(history) < MaxHistory THEN Append(history, ev) ELSE Truncated

\* the latest event: a handler of the App, or a continuation of session i
Ev(name) == <<name, 0>>

\* QrEffect without the test of isValidPhoneNumber
QrEffectAlwaysEncodes(phone, msg) ==
    IF phone = phoneNumber /\ msg = message
    THEN [qr |-> qrCodeDataUrl, pending |-> qrPending]
    ELSE [qr |-> qrCodeDataUrl,
          pending |-> qrPending (+) SetToBag({QrUrl(phone, msg)})]

\* useEffect(..., [phoneNumber, message, isValidPhoneNumber]) after a render
\* with the new phone and msg: the state of the QR image and of the requests
QrEffect(phone, msg) ==
    IF phone = phoneNumber /\ msg = message
    THEN [qr |-> qrCodeDataUrl, pending |-> qrPending]
    ELSE IF IsValidPhoneNumber(phone)
         THEN [qr |-> qrCodeDataUrl,
               pending |-> qrPending (+) SetToBag({QrUrl(phone, msg)})]
         ELSE [qr |-> <<>>, pending |-> qrPending]

\* a startRecording call that has not reached getUserMedia
NoSession == [phase |-> "unused", streamLive |-> FALSE, captured |-> 0,
              blob |-> <<>>, topic0 |-> <<>>, edited |-> FALSE,
              overwritten |-> FALSE, shared |-> FALSE]

\* no transcription ended in the latest event
NoTranscription == [outcome |-> "none", session |-> 0, topic0 |-> <<>>,
                    edited |-> FALSE, overwritten |-> FALSE, shared |-> FALSE]

\* session i as its transcription ends
Ended(i, outcome) ==
    [outcome |-> outcome, session |-> i, topic0 |-> sessions[i].topic0,
     edited |-> sessions[i].edited, overwritten |-> sessions[i].overwritten,
     shared |-> sessions[i].shared]

\* no generateMessageStream call returned in the latest event
NoRequest == [outcome |-> "none", delivered |-> <<>>, edited |-> FALSE]

Init ==
    /\ phoneNumber = <<>>
    /\ message = <<>>
    /\ topic = <<>>
    /\ qrCodeDataUrl = <<>>
    /\ error = Null
    /\ isGenerating = FALSE
    /\ isRecording = FALSE
    /\ mediaRecorderRef = 0
    /\ audioChunksRef = <<>>
    /\ qrPending = EmptyBag
    /\ genRequests = <<>>
    /\ genEnded = NoRequest
    /\ sessions = [i \in 1..MaxSessions |-> NoSession]
    /\ recEnded = NoTranscription
    /\ opened = <<>>
    /\ lastEvent = Ev("init")
    /\ history = <<>>

\* handlePhoneChange that appends to the stored number:
\* setPhoneNumber(prev => prev + sanitized)
handlePhoneChangeAppends(input) ==
    LET sanitized == phoneNumber \o Sanitize(input)
        eff == QrEffect(sanitized, message)
    IN  /\ BagCardinality(eff.pending) <= MaxPending
        /\ phoneNumber' = sanitized
        /\ error' = IF error # Null THEN Null ELSE error
        /\ qrCodeDataUrl' = eff.qr
        /\ qrPending' = eff.pending
        /\ opened' = <<>>
        /\ genEnded' = NoRequest
        /\ recEnded' = NoTranscription
        /\ lastEvent' = Ev("handlePhoneChange")
        /\ history' = Record(<<"phone">> \o Sanitize(input))
        /\ UNCHANGED <<message, topic, genVars, recVars>>

\* onChange of the phone input
handlePhoneChange(input) ==
    LET sanitized == Sanitize(input)
        eff == QrEffect(sanitized, message)
    IN  /\ BagCardinality(eff.pending) <= MaxPending
        /\ phoneNumber' = sanitized
        /\ error' = IF error # Null THEN Null ELSE error
        /\ qrCodeDataUrl' = eff.qr
        /\ qrPending' = eff.pending
        /\ opened' = <<>>
        /\ genEnded' = NoRequest
        /\ recEnded' = NoTranscription
        /\ lastEvent' = Ev("handlePhoneChange")
        /\ history' = Record(<<"phone">> \o sanitized)
        /\ UNCHANGED <<message, topic, genVars, recVars>>

\* the requests in flight, marked: the user has edited the message
MessageEdited(reqs) == [i \in 1..Len(reqs) |-> [reqs[i] EXCEPT !.edited = TRUE]]

\* onChange of the message textarea: setMessage(e.target.value)
handleMessageChange(msg) ==
    LET eff == QrEffect(phoneNumber, msg)
    IN  /\ BagCardinality(eff.pending) <= MaxPending
        /\ message' = msg
        /\ qrCodeDataUrl' = eff.qr
        /\ qrPending' = eff.pending
        /\ genRequests' = MessageEdited(genRequests)
        /\ opened' = <<>>
        /\ genEnded' = NoRequest
        /\ recEnded' = NoTranscription
        /\ lastEvent' = Ev("handleMessageChange")
        /\ history' = Record(<<"message">> \o msg)
        /\ UNCHANGED <<phoneNumber, topic, error, isGenerating, recVars>>

\* QRCode.toDataURL(url).then(setQrCodeDataUrl).catch(...) settles
QrSettled(url) ==
    /\ BagIn(url, qrPending)
    /\ qrPending' = qrPending (-) SetToBag({url})
    /\ qrCodeDataUrl' = IF ToDataURL(url).ok THEN ToDataURL(url).dataUrl ELSE <<>>
    /\ opened' = <<>>
    /\ genEnded' = NoRequest
    /\ recEnded' = NoTranscription
    /\ lastEvent' = Ev("QrSettled")
    /\ UNCHANGED <<phoneNumber, message, topic, error, genVars, recVars, history>>

\* handleOpenChat without the test of isValidPhoneNumber
handleOpenChatUnguarded ==
    /\ opened' = ChatUrl(phoneNumber, message)
    /\ error' = error
    /\ genEnded' = NoRequest
    /\ recEnded' = NoTranscription
    /\ lastEvent' = Ev("handleOpenChat")
    /\ history' = Record(<<"openChat">>)
    /\ UNCHANGED <<qrVars, message, topic, genVars, recVars>>

\* onClick of Open Chat
handleOpenChat ==
    /\ IF ~IsValidPhoneNumber(phoneNumber)
       THEN /\ error' = InvalidPhoneError
            /\ opened' = <<>>
       ELSE /\ opened' = ChatUrl(phoneNumber, message)
            /\ error' = error
    /\ genEnded' = NoRequest
    /\ recEnded' = NoTranscription
    /\ lastEvent' = Ev("handleOpenChat")
    /\ history' = Record(<<"openChat">>)
    /\ UNCHANGED <<qrVars, message, topic, genVars, recVars>>

NextQR ==
    \/ \E input \in RawPhones : handlePhoneChange(input)
    \/ \E msg \in Messages : handleMessageChange(msg)
    \/ \E url \in BagToSet(qrPending) : QrSettled(url)
    \/ handleOpenChat

SpecQR == Init /\ [][NextQR]_vars

-----------------------------------------------------------------------------
(* Message generation: handleGenerateMessage and generateMessageStream *)

\* the phases in which a startRecording call has yet to set the topic
AwaitsTopic(i) ==
    sessions[i].phase \in {"asking", "recording", "stopping", "encoding", "transcribing"}

\* session record ses once the user has edited the topic: from then on what
\* else happens to the topic is not recorded for it
UserEdited(ses) == [ses EXCEPT !.edited = TRUE, !.topic0 = <<>>, !.overwritten = FALSE]

\* onChange of the topic input: setTopic(e.target.value)
handleTopicChange(t) ==
    /\ topic' = t
    /\ sessions' = [i \in 1..MaxSessions |->
                      IF AwaitsTopic(i) THEN UserEdited(sessions[i]) ELSE sessions[i]]
    /\ opened' = <<>>
    /\ genEnded' = NoRequest
    /\ recEnded' = NoTranscription
    /\ lastEvent' = Ev("handleTopicChange")
    /\ history' = Record(<<"topic">> \o t)
    /\ UNCHANGED <<qrVars, message, error, genVars,
                   isRecording, mediaRecorderRef, audioChunksRef>>

\* a call that passed the guard: the state is set and the request issued
IssueRequest ==
    LET eff == QrEffect(phoneNumber, <<>>)
    IN  /\ Len(genRequests) < MaxRequests
        /\ BagCardinality(eff.pending) <= MaxPending
        /\ isGenerating' = TRUE
        /\ message' = <<>>
        /\ error' = Null
        /\ qrCodeDataUrl' = eff.qr
        /\ qrPending' = eff.pending
        /\ genRequests' = Append(MessageEdited(genRequests),
                                 [topic |-> topic, delivered |-> <<>>, edited |-> FALSE])

\* handleGenerateMessage that returns early only for an empty topic
handleGenerateMessageNoInFlightGuard ==
    /\ IF topic = <<>>
       THEN UNCHANGED <<isGenerating, message, error, qrCodeDataUrl, qrPending, genRequests>>
       ELSE IssueRequest
    /\ opened' = <<>>
    /\ genEnded' = NoRequest
    /\ recEnded' = NoTranscription
    /\ lastEvent' = Ev("handleGenerateMessage")
    /\ history' = Record(<<"generate">>)
    /\ UNCHANGED <<phoneNumber, topic, recVars>>

\* handleGenerateMessage that returns early only while generating
handleGenerateMessageNoTopicGuard ==
    /\ IF isGenerating
       THEN UNCHANGED <<isGenerating, message, error, qrCodeDataUrl, qrPending, genRequests>>
       ELSE IssueRequest
    /\ opened' = <<>>
    /\ genEnded' = NoRequest
    /\ recEnded' = NoTranscription
    /\ lastEvent' = Ev("handleGenerateMessage")
    /\ history' = Record(<<"generate">>)
    /\ UNCHANGED <<phoneNumber, topic, recVars>>

\* onClick of Generate
handleGenerateMessage ==
    /\ IF topic = <<>> \/ isGenerating
       THEN UNCHANGED <<isGenerating, message, error, qrCodeDataUrl, qrPending, genRequests>>
       ELSE IssueRequest
    /\ opened' = <<>>
    /\ genEnded' = NoRequest
    /\ recEnded' = NoTranscription
    /\ lastEvent' = Ev("handleGenerateMessage")
    /\ history' = Record(<<"generate">>)
    /\ UNCHANGED <<phoneNumber, topic, recVars>>

\* GenChunk with onChunk as setMessage(prev => chunk + prev)
GenChunkPrepends(r, text) ==
    LET msg == IF text # <<>> THEN text \o message ELSE message
        eff == QrEffect(phoneNumber, msg)
    IN  /\ r \in 1..Len(genRequests)
        /\ Len(genRequests[r].delivered) < MaxFragments
        /\ BagCardinality(eff.pending) <= MaxPending
        /\ message' = msg
        /\ qrCodeDataUrl' = eff.qr
        /\ qrPending' = eff.pending
        /\ genRequests' = [genRequests EXCEPT ![r].delivered = Append(@, text)]
        /\ opened' = <<>>
        /\ genEnded' = NoRequest
        /\ recEnded' = NoTranscription
        /\ lastEvent' = Ev("GenChunk")
        /\ UNCHANGED <<phoneNumber, topic, error, isGenerating, recVars, history>>

\* for await (const chunk of response): if (chunk.text) onChunk(chunk.text),
\* and onChunk is setMessage(prev => prev + chunk)
GenChunk(r, text) ==
    LET msg == IF text # <<>> THEN message \o text ELSE message
        eff == QrEffect(phoneNumber, msg)
    IN  /\ r \in 1..Len(genRequests)
        /\ Len(genRequests[r].delivered) < MaxFragments
        /\ BagCardinality(eff.pending) <= MaxPending
        /\ message' = msg
        /\ qrCodeDataUrl' = eff.qr
        /\ qrPending' = eff.pending
        /\ genRequests' = [genRequests EXCEPT ![r].delivered = Append(@, text)]
        /\ opened' = <<>>
        /\ genEnded' = NoRequest
        /\ recEnded' = NoTranscription
        /\ lastEvent' = Ev("GenChunk")
        /\ UNCHANGED <<phoneNumber, topic, error, isGenerating, recVars, history>>

\* the stream ends: generateMessageStream returns, then finally
GenDone(r) ==
    /\ r \in 1..Len(genRequests)
    /\ isGenerating' = FALSE
    /\ genRequests' = RemoveAt(genRequests, r)
    /\ genEnded' = [outcome |-> "done", delivered |-> genRequests[r].delivered,
                    edited |-> genRequests[r].edited]
    /\ opened' = <<>>
    /\ recEnded' = NoTranscription
    /\ lastEvent' = Ev("GenDone")
    /\ UNCHANGED <<qrVars, message, topic, error, recVars, history>>

\* GenFail with the message reset to '' in the catch block
GenFailRollsBack(r) ==
    LET eff == QrEffect(phoneNumber, <<>>)
    IN  /\ r \in 1..Len(genRequests)
        /\ BagCardinality(eff.pending) <= MaxPending
        /\ message' = <<>>
        /\ qrCodeDataUrl' = eff.qr
        /\ qrPending' = eff.pending
        /\ error' = GenerateError
        /\ isGenerating' = FALSE
        /\ genRequests' = RemoveAt(genRequests, r)
        /\ genEnded' = [outcome |-> "failed", delivered |-> genRequests[r].delivered,
                        edited |-> genRequests[r].edited]
        /\ opened' = <<>>
        /\ recEnded' = NoTranscription
        /\ lastEvent' = Ev("GenFail")
        /\ UNCHANGED <<phoneNumber, topic, recVars, history>>

\* GenFail with setIsGenerating(false) only after a successful await
GenFailNoFinally(r) ==
    /\ r \in 1..Len(genRequests)
    /\ error' = GenerateError
    /\ isGenerating' = isGenerating
    /\ genRequests' = RemoveAt(genRequests, r)
    /\ genEnded' = [outcome |-> "failed", delivered |-> genRequests[r].delivered,
                    edited |-> genRequests[r].edited]
    /\ opened' = <<>>
    /\ recEnded' = NoTranscription
    /\ lastEvent' = Ev("GenFail")
    /\ UNCHANGED <<qrVars, message, topic, recVars, history>>

\* the request or the stream fails: generateMessageStream throws its Error,
\* then catch (setError(err.message || ...)) and finally
GenFail(r) ==
    /\ r \in 1..Len(genRequests)
    /\ error' = GenerateError
    /\ isGenerating' = FALSE
    /\ genRequests' = RemoveAt(genRequests, r)
    /\ genEnded' = [outcome |-> "failed", delivered |-> genRequests[r].delivered,
                    edited |-> genRequests[r].edited]
    /\ opened' = <<>>
    /\ recEnded' = NoTranscription
    /\ lastEvent' = Ev("GenFail")
    /\ UNCHANGED <<qrVars, message, topic, recVars, history>>

NextGen ==
    \/ \E t \in Topics : handleTopicChange(t)
    \/ \E msg \in Messages : handleMessageChange(msg)
    \/ handleGenerateMessage
    \/ \E r \in 1..MaxRequests, text \in Fragments : GenChunk(r, text)
    \/ \E r \in 1..MaxRequests : GenDone(r)
    \/ \E r \in 1..MaxRequests : GenFail(r)

SpecGen == Init /\ [][NextGen]_vars

-----------------------------------------------------------------------------
(* Voice topic: useSpeechRecognition, onTranscriptionComplete, transcribeAudio *)

\* mediaRecorderRef.current.state === 'recording'
RecorderState(i) == IF sessions[i].phase = "recording" THEN "recording" ELSE "inactive"

\* stopRecording: the sessions after it
stopRecording ==
    IF mediaRecorderRef # 0 /\ RecorderState(mediaRecorderRef) = "recording"
    THEN [sessions EXCEPT ![mediaRecorderRef].phase = "stopping"]
    ELSE sessions

\* session i has asked for, or holds, the microphone
UsesMicrophone(i) ==
    sessions[i].phase \in {"asking", "recording", "stopping", "encoding", "encodeFailed"}

\* the call that reaches getUserMedia as session n, on record with the topic
\* of that moment; shared marks the sessions that use the microphone together
AskMicrophone(n) ==
    LET together == \E j \in 1..MaxSessions : UsesMicrophone(j)
    IN  [j \in 1..MaxSessions |->
            IF j = n
            THEN [NoSession EXCEPT !.phase = "asking", !.topic0 = topic,
                                   !.shared = together]
            ELSE IF UsesMicrophone(j) THEN [sessions[j] EXCEPT !.shared = TRUE]
            ELSE sessions[j]]

\* the first startRecording call not yet made
FreeSession == CHOOSE i \in 1..MaxSessions :
                   /\ sessions[i].phase = "unused"
                   /\ \A j \in 1..(i - 1) : sessions[j].phase # "unused"

\* onClick of the microphone button, up to await getUserMedia
startRecording ==
    /\ IF isRecording
       THEN sessions' = stopRecording
       ELSE /\ \E i \in 1..MaxSessions : sessions[i].phase = "unused"
            /\ sessions' = AskMicrophone(FreeSession)
    /\ opened' = <<>>
    /\ genEnded' = NoRequest
    /\ recEnded' = NoTranscription
    /\ lastEvent' = Ev("startRecording")
    /\ history' = Record(<<"record">>)
    /\ UNCHANGED <<qrVars, message, topic, error, genVars,
                   isRecording, mediaRecorderRef, audioChunksRef>>

\* getUserMedia resolves: the rest of the try block of startRecording
MicGranted(i) ==
    /\ sessions[i].phase = "asking"
    /\ isRecording' = TRUE
    /\ audioChunksRef' = <<>>
    /\ mediaRecorderRef' = i
    /\ sessions' = [sessions EXCEPT ![i].phase = "recording", ![i].streamLive = TRUE]
    /\ opened' = <<>>
    /\ genEnded' = NoRequest
    /\ recEnded' = NoTranscription
    /\ lastEvent' = <<"MicGranted", i>>
    /\ UNCHANGED <<qrVars, message, topic, error, genVars, history>>

\* getUserMedia rejects: the catch block of startRecording
MicDenied(i) ==
    /\ sessions[i].phase = "asking"
    /\ error' = MicrophoneError
    /\ isRecording' = FALSE
    /\ sessions' = [sessions EXCEPT ![i] = [NoSession EXCEPT !.phase = "denied"]]
    /\ opened' = <<>>
    /\ genEnded' = NoRequest
    /\ recEnded' = NoTranscription
    /\ lastEvent' = <<"MicDenied", i>>
    /\ UNCHANGED <<qrVars, message, topic, genVars,
                   mediaRecorderRef, audioChunksRef, history>>

\* the 'dataavailable' listener of recorder i
DataAvailable(i) ==
    /\ sessions[i].phase = "recording"
    /\ sessions[i].captured < MaxChunks
    /\ audioChunksRef' = Append(audioChunksRef, <<i, sessions[i].captured + 1>>)
    /\ sessions' = [sessions EXCEPT ![i].captured = @ + 1]
    /\ opened' = <<>>
    /\ genEnded' = NoRequest
    /\ recEnded' = NoTranscription
    /\ lastEvent' = <<"DataAvailable", i>>
    /\ UNCHANGED <<qrVars, message, topic, error, genVars,
                   isRecording, mediaRecorderRef, history>>

\* recorder i, stopped, fires its last 'dataavailable' and then 'stop': the
\* 'stop' listener up to await blobToBase64
RecorderStopped(i) ==
    LET chunks == Append(audioChunksRef, <<i, sessions[i].captured + 1>>)
    IN  /\ sessions[i].phase = "stopping"
        /\ audioChunksRef' = chunks
        /\ sessions' = [sessions EXCEPT ![i].phase = "encoding",
                                        ![i].captured = @ + 1,
                                        ![i].blob = chunks]
        /\ opened' = <<>>
        /\ genEnded' = NoRequest
        /\ recEnded' = NoTranscription
        /\ lastEvent' = <<"RecorderStopped", i>>
        /\ UNCHANGED <<qrVars, message, topic, error, genVars,
                       isRecording, mediaRecorderRef, history>>

\* blobToBase64 resolves: onTranscriptionComplete up to await transcribeAudio,
\* then the stream's tracks are stopped and setIsRecording(false)
Encoded(i) ==
    /\ sessions[i].phase = "encoding"
    /\ error' = Null
    /\ isRecording' = FALSE
    /\ sessions' = [sessions EXCEPT ![i].phase = "transcribing", ![i].streamLive = FALSE]
    /\ opened' = <<>>
    /\ genEnded' = NoRequest
    /\ recEnded' = NoTranscription
    /\ lastEvent' = <<"Encoded", i>>
    /\ UNCHANGED <<qrVars, message, topic, genVars,
                   mediaRecorderRef, audioChunksRef, history>>

\* blobToBase64 rejects (reader.onerror): the 'stop' listener ends there
EncodeFailed(i) ==
    /\ sessions[i].phase = "encoding"
    /\ sessions' = [sessions EXCEPT ![i].phase = "encodeFailed"]
    /\ opened' = <<>>
    /\ genEnded' = NoRequest
    /\ recEnded' = NoTranscription
    /\ lastEvent' = <<"EncodeFailed", i>>
    /\ UNCHANGED <<qrVars, message, topic, error, genVars,
                   isRecording, mediaRecorderRef, audioChunksRef, history>>

\* transcribeAudio returns response.text: setTopic(transcribedText)
Transcribed(i, text) ==
    /\ sessions[i].phase = "transcribing"
    /\ topic' = text
    /\ sessions' = [j \in 1..MaxSessions |->
                      IF j = i THEN [NoSession EXCEPT !.phase = "transcribed"]
                      ELSE IF AwaitsTopic(j) /\ ~sessions[j].edited
                           THEN [sessions[j] EXCEPT !.overwritten = TRUE]
                      ELSE sessions[j]]
    /\ opened' = <<>>
    /\ genEnded' = NoRequest
    /\ recEnded' = Ended(i, "transcribed")
    /\ lastEvent' = <<"Transcribed", i>>
    /\ UNCHANGED <<qrVars, message, error, genVars,
                   isRecording, mediaRecorderRef, audioChunksRef, history>>

\* TranscribeFailed with setTopic('') in the catch block
TranscribeFailedClearsTopic(i) ==
    /\ sessions[i].phase = "transcribing"
    /\ error' = TranscribeError
    /\ topic' = <<>>
    /\ sessions' = [sessions EXCEPT ![i] = [NoSession EXCEPT !.phase = "transcribeFailed"]]
    /\ opened' = <<>>
    /\ genEnded' = NoRequest
    /\ recEnded' = Ended(i, "failed")
    /\ lastEvent' = <<"TranscribeFailed", i>>
    /\ UNCHANGED <<qrVars, message, genVars,
                   isRecording, mediaRecorderRef, audioChunksRef, history>>

\* transcribeAudio throws its Error: setError(err.message || ...)
TranscribeFailed(i) ==
    /\ sessions[i].phase = "transcribing"
    /\ error' = TranscribeError
    /\ sessions' = [sessions EXCEPT ![i] = [NoSession EXCEPT !.phase = "transcribeFailed"]]
    /\ opened' = <<>>
    /\ genEnded' = NoRequest
    /\ recEnded' = Ended(i, "failed")
    /\ lastEvent' = <<"TranscribeFailed", i>>
    /\ UNCHANGED <<qrVars, message, topic, genVars,
                   isRecording, mediaRecorderRef, audioChunksRef, history>>

NextRec ==
    \/ \E t \in Topics : handleTopicChange(t)
    \/ startRecording
    \/ \E i \in 1..MaxSessions : MicGranted(i)
    \/ \E i \in 1..MaxSessions : MicDenied(i)
    \/ \E i \in 1..MaxSessions : DataAvailable(i)
    \/ \E i \in 1..MaxSessions : RecorderStopped(i)
    \/ \E i \in 1..MaxSessions : Encoded(i)
    \/ \E i \in 1..MaxSessions : EncodeFailed(i)
    \/ \E i \in 1..MaxSessions, text \in Transcripts : Transcribed(i, text)
    \/ \E i \in 1..MaxSessions : TranscribeFailed(i)

SpecRec == Init /\ [][NextRec]_vars

\* the same with recorders that deliver their data once, when stopped
\* (recorder.start() is called without a timeslice)
NextVoice ==
    \/ \E t \in Topics : handleTopicChange(t)
    \/ startRecording
    \/ \E i \in 1..MaxSessions : MicGranted(i)
    \/ \E i \in 1..MaxSessions : MicDenied(i)
    \/ \E i \in 1..MaxSessions : RecorderStopped(i)
    \/ \E i \in 1..MaxSessions : Encoded(i)
    \/ \E i \in 1..MaxSessions : EncodeFailed(i)
    \/ \E i \in 1..MaxSessions, text \in Transcripts : Transcribed(i, text)
    \/ \E i \in 1..MaxSessions : TranscribeFailed(i)

SpecVoice == Init /\ [][NextVoice]_vars

-----------------------------------------------------------------------------
(* The whole page *)

Next == NextQR \/ NextGen \/ NextRec

Spec == Init /\ [][Next]_vars

-----------------------------------------------------------------------------
(* Claims about the QR code, Open Chat and the phone field (SpecQR) *)

\* C1: a QR encode result, success or failure, is committed to the displayed
\* image only if the URL it was requested for is the deep link of the phone
\* number and message current at the time of the commit.
C1_OnlyCurrentResultCommitted ==
    [][\A url \in BagToSet(qrPending) :
          QrSettled(url) =>
              /\ IsValidPhoneNumber(phoneNumber)
              /\ url = QrUrl(phoneNumber, message)]_vars

\* C2: while the phone number is invalid the displayed QR image is empty,
\* also after encode requests issued for earlier valid inputs complete.
C2_NoImageWhileInvalid ==
    ~IsValidPhoneNumber(phoneNumber) => qrCodeDataUrl = <<>>

\* the history is exactly: phone set to first, then phone set to second
IsPhoneRace(first, second) ==
    history = << <<"phone">> \o first, <<"phone">> \o second >>

SanitizedPhones == {Sanitize(input) : input \in RawPhones}

\* C3: from the initial state, after the phone is set to an invalid number
\* and then at once to a valid one, isValidPhoneNumber is true, the QR image
\* is never that of the first number, and once every encode has completed it
\* is the image of the second number's link.
C3_RaceShowsSecondNumber ==
    \A first, second \in SanitizedPhones :
        (/\ IsPhoneRace(first, second)
         /\ ~IsValidPhoneNumber(first)
         /\ IsValidPhoneNumber(second))
        => /\ IsValidPhoneNumber(phoneNumber)
           /\ qrCodeDataUrl # ToDataURL(QrUrl(first, <<>>)).dataUrl
           /\ qrCodeDataUrl \in {<<>>, ToDataURL(QrUrl(second, <<>>)).dataUrl}
           /\ (qrPending = EmptyBag
                 => qrCodeDataUrl = ToDataURL(QrUrl(second, <<>>)).dataUrl)

\* C3 witness: "555123" then "+15551234567", the encode done
C3_Witness ==
    /\ IsPhoneRace(Phone6, PhoneIntl)
    /\ qrPending = EmptyBag
    /\ lastEvent = Ev("QrSettled")
    /\ qrCodeDataUrl = ToDataURL(QrUrl(PhoneIntl, <<>>)).dataUrl

\* the number of digits that follow "https://wa.me/" in url, 0 if url does
\* not start with it
RECURSIVE LeadingDigits(_)
LeadingDigits(s) ==
    IF s # <<>> /\ Head(s) \in Digits THEN 1 + LeadingDigits(Tail(s)) ELSE 0
UrlDigits(url) ==
    IF Len(url) >= Len(WaMe) /\ SubSeq(url, 1, Len(WaMe)) = WaMe
    THEN LeadingDigits(SubSeq(url, Len(WaMe) + 1, Len(url)))
    ELSE 0

\* C9: Open Chat with an invalid phone number sets the validation error and
\* opens nothing, and every URL it opens carries at least 7 digits.
C9_OpenChatOnlyWhenValid ==
    /\ (lastEvent = Ev("handleOpenChat") /\ ~IsValidPhoneNumber(phoneNumber))
          => (error = InvalidPhoneError /\ opened = <<>>)
    /\ opened # <<>>
          => (lastEvent = Ev("handleOpenChat") /\ UrlDigits(opened) >= MinDigits)

\* C9 witness: Open Chat was just invoked with an invalid phone number
C9_Witness ==
    /\ lastEvent = Ev("handleOpenChat")
    /\ ~IsValidPhoneNumber(phoneNumber)
    /\ phoneNumber # <<>>
    /\ error = InvalidPhoneError

\* C10: the stored phone number holds only digits and at most one '+', which
\* can only be its first character.
C10_PhoneIsDigitsWithLeadingPlus ==
    \A i \in 1..Len(phoneNumber) :
        \/ phoneNumber[i] \in Digits
        \/ (phoneNumber[i] = "+" /\ i = 1)

\* the number of digit characters of s, counted position by position
NumDigits(s) == Cardinality({i \in 1..Len(s) : s[i] \in Digits})

\* C11: isValidPhoneNumber is true if and only if the stored phone number
\* has at least 7 digit characters, '+' characters not counted; Open Chat
\* opens a URL exactly then.
C11_ValidIffSevenDigits ==
    /\ IsValidPhoneNumber(phoneNumber) <=> NumDigits(phoneNumber) >= 7
    /\ lastEvent = Ev("handleOpenChat")
          => (opened # <<>> <=> NumDigits(phoneNumber) >= 7)

\* C11 witness: Open Chat refused "+555123", seven characters with six digits
C11_Witness ==
    /\ phoneNumber = PhonePlus6
    /\ lastEvent = Ev("handleOpenChat")
    /\ opened = <<>>
    /\ error = InvalidPhoneError

\* url begins with prefix
StartsWith(url, prefix) ==
    Len(url) >= Len(prefix) /\ SubSeq(url, 1, Len(prefix)) = prefix

\* s without its first n characters
Drop(s, n) == SubSeq(s, n + 1, Len(s))

\* the character a %XX escape stands for
Unescape(t) ==
    CASE t = <<"%", "2", "0">> -> " "
      [] t = <<"%", "2", "5">> -> "%"
      [] t = <<"%", "2", "6">> -> "&"
      [] t = <<"%", "2", "B">> -> "+"
      [] t = <<"%", "3", "D">> -> "="
      [] t = <<"%", "3", "F">> -> "?"
      [] OTHER -> "#"

\* URL-decoding of a query parameter
RECURSIVE decodeURIComponent(_)
decodeURIComponent(s) ==
    IF s = <<>> THEN <<>>
    ELSE IF Head(s) = "%" /\ Len(s) >= 3
         THEN <<Unescape(SubSeq(s, 1, 3))>> \o decodeURIComponent(Drop(s, 3))
         ELSE <<Head(s)>> \o decodeURIComponent(Tail(s))

NotPlus(c) == c # "+"

\* url is https://wa.me/ followed by exactly the digits number, and then
\* nothing if text is empty, ?text= and text URL-encoded if it is not
IsDeepLink(url, number, text) ==
    LET rest == Drop(url, Len(WaMe))
        n == LeadingDigits(rest)
        query == Drop(rest, n)
        param == Drop(query, Len(TextParam))
    IN  /\ StartsWith(url, WaMe)
        /\ SubSeq(rest, 1, n) = number
        /\ IF text = <<>>
           THEN query = <<>>
           ELSE /\ StartsWith(query, TextParam)
                /\ \A i \in 1..Len(param) : param[i] \in Unreserved \cup {"%"}
                /\ decodeURIComponent(param) = text

\* C12: the deep link that Open Chat opens is https://wa.me/ followed by
\* the digits of the phone number only (no '+'), with ?text= and the encoded
\* message appended if and only if the message is not empty; the links given
\* to the QR encoder have the same shape.
C12_DeepLinkShape ==
    /\ opened # <<>>
          => IsDeepLink(opened, SelectSeq(phoneNumber, NotPlus), message)
    /\ \A url \in BagToSet(qrPending) :
          \E phone \in SanitizedPhones, msg \in Messages \cup {message} :
             /\ NumDigits(phone) >= 7
             /\ IsDeepLink(url, SelectSeq(phone, NotPlus), msg)

\* "https://wa.me/15551234567?text=Hi%20there"
LinkIntlHi ==
    <<"h", "t", "t", "p", "s", ":", "/", "/", "w", "a", ".", "m", "e", "/",
      "1", "5", "5", "5", "1", "2", "3", "4", "5", "6", "7",
      "?", "t", "e", "x", "t", "=", "H", "i", "%", "2", "0", "t", "h", "e", "r", "e">>

\* C12 witness: Open Chat with "+15551234567" and "Hi there"
C12_Witness ==
    /\ phoneNumber = PhoneIntl
    /\ message = MsgHi
    /\ opened = LinkIntlHi

\* C13: for a valid phone number, the URL Open Chat opens and the URL the
\* QR effect submits to the encoder for the same phone number and message
\* are identical: every URL submitted is the one Open Chat would open for
\* the pair of that render, and every URL opened is the one the effect
\* submits for the pair.
C13_SameLinkForQrAndOpenChat ==
    /\ [][BagCardinality(qrPending') > BagCardinality(qrPending)
            => /\ IsValidPhoneNumber(phoneNumber')
               /\ qrPending' = qrPending (+) SetToBag({ChatUrl(phoneNumber', message')})]_vars
    /\ [][opened' # <<>>
            => /\ IsValidPhoneNumber(phoneNumber)
               /\ opened' = QrUrl(phoneNumber, message)]_vars

\* C13 witness: Open Chat opened, for a number with a '+' and a message with
\* a space, the very URL the encoder is still working on
C13_Witness ==
    /\ lastEvent = Ev("handleOpenChat")
    /\ phoneNumber = PhoneIntl
    /\ message = MsgHi
    /\ opened # <<>>
    /\ BagIn(opened, qrPending)

\* C16: a second call of setPhoneNumber, right after a first, with an input
\* that sanitizes to the same string leaves the state as the first call left
\* it: the same phoneNumber, hence the same isValidPhoneNumber and deep link,
\* the same QR image and the same encodes outstanding, hence the same image
\* once they have completed.
C16_SetPhoneNumberIdempotent ==
    [][\A input \in RawPhones :
          (/\ lastEvent = Ev("handlePhoneChange")
           /\ phoneNumber = Sanitize(input)
           /\ handlePhoneChange(input))
          => /\ UNCHANGED <<phoneNumber, message, qrCodeDataUrl, qrPending>>
             /\ IsValidPhoneNumber(phoneNumber') = IsValidPhoneNumber(phoneNumber)
             /\ ChatUrl(phoneNumber', message') = ChatUrl(phoneNumber, message)]_vars

\* C16 witness: the phone set twice in a row to "+15551234567", the one
\* encode of the first call outstanding
C16_Witness ==
    /\ lastEvent = Ev("handlePhoneChange")
    /\ history = << <<"phone">> \o PhoneIntl, <<"phone">> \o PhoneIntl >>
    /\ phoneNumber = PhoneIntl
    /\ BagCardinality(qrPending) = 1

-----------------------------------------------------------------------------
(* Claims about the voice topic (SpecRec) *)

\* session i holds a live microphone stream and a MediaRecorder
ActiveSession(i) == sessions[i].streamLive

\* C4: at most one recording session (live microphone stream and recorder)
\* is active at any time, also when startRecording is called again while the
\* first call's permission request is pending.
C4_AtMostOneSession ==
    Cardinality({i \in 1..MaxSessions : ActiveSession(i)}) <= 1

\* a transcription has just failed
JustFailed == recEnded.outcome = "failed"

\* C6 as claimed: when transcribeAudio fails, the error slot holds the
\* failure message and, unless the user edited the topic since the voice
\* request was invoked, topic has the value it had at that invocation.
\* Stated for the recordings that had the microphone to themselves, which
\* is the case the claim is about: what C4 allows plays no part.
C6_TopicAsAtInvocation ==
    (JustFailed /\ ~recEnded.shared) =>
        /\ error = TranscribeError
        /\ ~recEnded.edited => topic = recEnded.topic0

\* C6 amended: when transcribeAudio fails, the error slot holds the failure
\* message and topic has the value it had at the invocation unless the user
\* edited it or the transcription of another recording replaced it since.
C6_TopicKeptOnFailure ==
    JustFailed =>
        /\ error = TranscribeError
        /\ (~recEnded.edited /\ ~recEnded.overwritten) => topic = recEnded.topic0

\* C6 witness: a transcription failed for a recording started with a typed
\* topic, which nothing changed since
C6_Witness ==
    /\ JustFailed
    /\ ~recEnded.edited
    /\ ~recEnded.overwritten
    /\ recEnded.topic0 = TopicWish
    /\ topic = TopicWish
    /\ error = TranscribeError

\* every handler and listener of startRecording call i has run to its end
ListenersEnded(i) ==
    sessions[i].phase \in {"denied", "encodeFailed", "transcribing",
                           "transcribed", "transcribeFailed"}

\* C14: once a recording has been stopped, or an error has occurred during
\* start or finalization, the microphone stream is released and isRecording
\* is false again, so that a new recording can be started.  Stated of the
\* state in which the call's listeners have all ended, for the calls that
\* had the microphone to themselves.
C14_MicrophoneReleased ==
    \A i \in 1..MaxSessions :
        (ListenersEnded(i) /\ ~sessions[i].shared)
        => /\ ~sessions[i].streamLive
           /\ (\A j \in 1..MaxSessions : j # i => ~UsesMicrophone(j)) => ~isRecording

\* startRecording call i has a MediaRecorder that is recording or stopping
HoldsRecorder(i) == sessions[i].phase \in {"recording", "stopping"}

\* C15: when getUserMedia fails for a startRecording call, the error
\* callback has been invoked (the error slot holds the microphone message),
\* isRecording is false, no recorder or stream remains held, and the call
\* never reaches onTranscriptionComplete.
C15_DenialLeavesIdle ==
    /\ [](\A i \in 1..MaxSessions :
            lastEvent = <<"MicDenied", i>> =>
               /\ error = MicrophoneError
               /\ ~isRecording
               /\ \A j \in 1..MaxSessions :
                     ~sessions[j].streamLive /\ ~HoldsRecorder(j))
    /\ [][\A i \in 1..MaxSessions :
             sessions[i].phase = "denied" => sessions'[i] = sessions[i]]_vars

\* the chunks recorder i has captured, in capture order
OwnChunks(i) == [k \in 1..sessions[i].captured |-> <<i, k>>]

\* C19: the audio payload assembled for a recording session consists of
\* exactly the chunks captured during that session, in capture order: none
\* of them is missing and no chunk of another session is included.
C19_PayloadIsOwnChunks ==
    \A i \in 1..MaxSessions :
        sessions[i].phase \in {"encoding", "encodeFailed", "transcribing"}
        => sessions[i].blob = OwnChunks(i)

\* recorder i has been stopped and its 'stop' listener has not yet set
\* isRecording back to false
Finalizing(i) == sessions[i].phase \in {"stopping", "encoding"}

\* C20: while a stopped recording is being finalized, a further call of
\* startRecording or stopRecording has no effect: it opens no microphone
\* stream, creates no recorder and stops none, so that no additional
\* onTranscriptionComplete delivery follows from it.
C20_NoEffectWhileFinalizing ==
    /\ []((\E i \in 1..MaxSessions : Finalizing(i)) => stopRecording = sessions)
    /\ [][((\E i \in 1..MaxSessions : Finalizing(i))
              /\ lastEvent' = Ev("startRecording"))
            => UNCHANGED <<sessions, isRecording, mediaRecorderRef, audioChunksRef>>]_vars

-----------------------------------------------------------------------------
(* Claims about message generation (SpecGen) *)

\* C5: at most one generation request is in flight, and a call of
\* handleGenerateMessage while one is in flight issues none and changes nothing.
C5_OneRequestInFlight ==
    /\ [](Len(genRequests) <= 1)
    /\ [][(lastEvent' = Ev("handleGenerateMessage") /\ isGenerating)
             => UNCHANGED <<genRequests, isGenerating, message, error>>]_vars

\* C5 witness: Generate was invoked while a request that has already
\* delivered a fragment is in flight
C5_Witness ==
    /\ lastEvent = Ev("handleGenerateMessage")
    /\ isGenerating
    /\ Len(genRequests) = 1
    /\ genRequests[1].delivered # <<>>

\* C7 as claimed: when a generation request fails after k fragments, message
\* is the concatenation of those k fragments and the error slot holds the
\* failure message.
C7_MessageIsDeliveredFragments ==
    genEnded.outcome = "failed" =>
        /\ message = Concat(genEnded.delivered)
        /\ error = GenerateError

\* C7 amended: the same, for a request during which the user did not edit
\* the message; the error slot holds the failure message in every case.
C7_PartialMessageKept ==
    genEnded.outcome = "failed" =>
        /\ error = GenerateError
        /\ ~genEnded.edited => message = Concat(genEnded.delivered)

\* C7 witness: a request failed after two fragments, the message not edited
C7_Witness ==
    /\ genEnded.outcome = "failed"
    /\ ~genEnded.edited
    /\ Len(genEnded.delivered) = 2
    /\ message # <<>>

\* C8: isGenerating is true exactly while a request is outstanding, and is
\* false once a request has ended, by the end of its stream or by failure.
C8_GeneratingWhileOutstanding ==
    /\ isGenerating <=> genRequests # <<>>
    /\ genEnded.outcome \in {"done", "failed"} => ~isGenerating

\* C8 witness: a request has just failed and Generate is available again
C8_Witness ==
    /\ genEnded.outcome = "failed"
    /\ ~isGenerating
    /\ genRequests = <<>>
    /\ topic # <<>>

\* C17: handleGenerateMessage invoked while topic is empty changes nothing:
\* message, isGenerating and the error slot keep their values and no
\* generation request is issued.
C17_EmptyTopicIsNoOp ==
    [][(lastEvent' = Ev("handleGenerateMessage") /\ topic = <<>>)
          => UNCHANGED <<message, isGenerating, error, genRequests,
                         qrCodeDataUrl, qrPending>>]_vars

\* C17 witness: Generate was invoked with an empty topic while a message and
\* an error were on display
C17_Witness ==
    /\ lastEvent = Ev("handleGenerateMessage")
    /\ topic = <<>>
    /\ message = MsgHi
    /\ error = GenerateError
    /\ ~isGenerating

NonEmpty(text) == text # <<>>

\* C18: when a generation request completes and the user has not edited the
\* message since the request reset it, message is the concatenation of the
\* non-empty fragments of the stream in the order the service produced them,
\* each exactly once.
C18_MessageIsFragmentsInOrder ==
    (genEnded.outcome = "done" /\ ~genEnded.edited)
    => message = Concat(SelectSeq(genEnded.delivered, NonEmpty))

\* C18 witness: a stream of "Hi" and then "!" has completed
C18_Witness ==
    /\ genEnded.outcome = "done"
    /\ ~genEnded.edited
    /\ genEnded.delivered = << <<"H", "i">>, <<"!">> >>
    /\ message = <<"H", "i", "!">>

====
